---- MODULE Spec2Model ----
(***************************************************************************)
(* Model of src/main.cc: the Vec3 / Mat4 arithmetic, the first-person      *)
(* camera driven by mouse_callback and process_input, and the render loop  *)
(* of main().                                                              *)
(*                                                                         *)
(* Number representation.  The program computes in IEEE single precision.  *)
(* Here a float that holds a length, a direction component, a radian or a  *)
(* time in seconds is the integer nearest to 10^4 times its value (SCALE); *)
(* an angle in degrees is held in tenths of a degree; a cursor coordinate  *)
(* is held in whole pixels.  Multiplication and division round to nearest, *)
(* symmetrically about zero, as IEEE round-to-nearest does.  The one       *)
(* non-finite value the program can produce, the quotient 0/0 of           *)
(* Vec3::norm on a zero-length vector, is the reserved value NaN, which    *)
(* every arithmetic operator propagates.  Overflow and loss of precision   *)
(* of floats far from the origin are not modelled.                         *)
(***************************************************************************)
EXTENDS Integers, Sequences, FiniteSets, TLC

\* ------------------------------------------------------------------------
\* Bounds of the model
\* ------------------------------------------------------------------------

\* The clock stops producing new frames after this many ticks of TimeTick.
MaxTime == 4

\* A frame lasts between 1 and MaxDt ticks of TimeTick.
MaxDt == 2

\* Components of the operand vectors of the vector-algebra specification
\* range over -MaxCoord..MaxCoord multiples of CoordStep.
MaxCoord == 2

\* The window system delivers at most this many events during the run.
MaxEvents == 2

\* ------------------------------------------------------------------------
\* Fixed-point floats
\* ------------------------------------------------------------------------

\* One unit of a float is 1/SCALE.
SCALE == 10000

\* Seconds per tick of the model clock, in units of 1/SCALE (0.125 s).
TimeTick == 1250

\* Spacing of the operand components in the vector-algebra specification.
CoordStep == 3333

\* The result of 0/0; never a value of a finite computation in the model.
NaN == 2000000000

IsNaN(a) == a = NaN

Abs(a) == IF a < 0 THEN -a ELSE a

\* p / d rounded to nearest, ties away from zero; d > 0.
RoundDiv(p, d) == IF p >= 0 THEN (p + d \div 2) \div d ELSE -((-p + d \div 2) \div d)

FAdd(a, b) == IF IsNaN(a) \/ IsNaN(b) THEN NaN ELSE a + b

FSub(a, b) == IF IsNaN(a) \/ IsNaN(b) THEN NaN ELSE a - b

FNeg(a) == IF IsNaN(a) THEN NaN ELSE -a

\* a * b of two floats: (a * b) / SCALE, computed in two parts so that the
\* intermediate product stays within TLC's 32-bit integers.
FMul(a, b) ==
    IF IsNaN(a) \/ IsNaN(b) THEN NaN
    ELSE LET sgn == IF (a < 0) = (b < 0) THEN 1 ELSE -1
             ma  == Abs(a)
             mb  == Abs(b)
         IN  sgn * ((ma \div SCALE) * mb + RoundDiv((ma % SCALE) * mb, SCALE))

\* a / b of two floats: (a * SCALE) / b; 0/0 is NaN.  A nonzero a over a
\* zero b (an infinity) does not occur: the only divisor that can be zero,
\* Vec3::length(), is zero only for the zero vector.
FDiv(a, b) ==
    IF IsNaN(a) \/ IsNaN(b) \/ b = 0 THEN NaN
    ELSE LET sgn == IF (a < 0) = (b < 0) THEN 1 ELSE -1
             ma  == Abs(a)
             mb  == Abs(b)
         IN  sgn * ((ma \div mb) * SCALE + RoundDiv((ma % mb) * SCALE, mb))

\* Integer square root by bisection: the largest r with r * r <= n.
RECURSIVE ISqrtIter(_, _, _)
ISqrtIter(n, lo, hi) ==
    IF lo >= hi THEN lo
    ELSE LET mid == (lo + hi + 1) \div 2
         IN  IF mid * mid <= n THEN ISqrtIter(n, mid, hi)
                               ELSE ISqrtIter(n, lo, mid - 1)

\* sqrtf of a sum of squares held in units of 1/SCALE^2, rounded to nearest.
sqrtf(n) ==
    IF IsNaN(n) THEN NaN
    ELSE LET r == ISqrtIter(n, 0, 46340)
         IN  IF n - r * r > r THEN r + 1 ELSE r

\* M_PI in units of 1/SCALE.
M_PI == 31416

\* angle * M_PI * 2 / 360, for an angle in tenths of a degree.
deg_to_rad(angle) == RoundDiv(angle * M_PI * 2, 3600)

\* sin on [-pi/2, pi/2] by its Taylor polynomial up to x^9, in Horner form.
SinPoly(x) ==
    LET x2 == FMul(x, x)
        h4 == SCALE - x2 \div 72
        h3 == SCALE - FMul(x2, h4) \div 42
        h2 == SCALE - FMul(x2, h3) \div 20
        h1 == SCALE - FMul(x2, h2) \div 6
    IN  FMul(x, h1)

\* sinf of a radian value: reduce to one period, then to [-pi/2, pi/2].
sinf(r) ==
    LET t == r % (2 * M_PI)
    IN  IF t <= M_PI \div 2 THEN SinPoly(t)
        ELSE IF t <= (3 * M_PI) \div 2 THEN SinPoly(M_PI - t)
        ELSE SinPoly(t - 2 * M_PI)

cosf(r) == sinf(r + M_PI \div 2)

tanf(r) == FDiv(sinf(r), cosf(r))

\* ------------------------------------------------------------------------
\* Vec3
\* ------------------------------------------------------------------------

Vec3(x, y, z) == [x |-> x, y |-> y, z |-> z]

VecHasNaN(v) == IsNaN(v.x) \/ IsNaN(v.y) \/ IsNaN(v.z)

\* Vec3::length: sqrtf(x * x + y * y + z * z).
length(v) ==
    IF VecHasNaN(v) THEN NaN
    ELSE sqrtf(v.x * v.x + v.y * v.y + v.z * v.z)

\* Vec3::norm: each component divided by the length, with no test of the
\* length: the zero vector becomes (NaN, NaN, NaN).
norm(v) ==
    LET len == length(v)
    IN  Vec3(FDiv(v.x, len), FDiv(v.y, len), FDiv(v.z, len))

\* Vec3::cross with the temporaries of a bug that forgot them: the second
\* and third assignments read the components already overwritten.
cross_NoTemporaries(a, other) ==
    LET s1 == [a  EXCEPT !.x = FSub(FMul(a.y,  other.z), FMul(a.z,  other.y))]
        s2 == [s1 EXCEPT !.y = FSub(FMul(s1.z, other.x), FMul(s1.x, other.z))]
        s3 == [s2 EXCEPT !.z = FSub(FMul(s2.x, other.y), FMul(s2.y, other.x))]
    IN  s3

\* Vec3::cross: the in-place update, one assignment after the other; xx and
\* yy hold the components that the first two assignments overwrite.
cross(a, other) ==
    LET xx == a.x
        yy == a.y
        s1 == [a  EXCEPT !.x = FSub(FMul(yy,   other.z), FMul(a.z, other.y))]
        s2 == [s1 EXCEPT !.y = FSub(FMul(s1.z, other.x), FMul(xx,  other.z))]
        s3 == [s2 EXCEPT !.z = FSub(FMul(xx,   other.y), FMul(yy,  other.x))]
    IN  s3

\* Vec3::neg.
neg(v) == Vec3(FNeg(v.x), FNeg(v.y), FNeg(v.z))

\* Vec3::sum.
sum(v) == FAdd(FAdd(v.x, v.y), v.z)

\* Vec3::operator-(const Vec3&).
VecSub(a, b) == Vec3(FSub(a.x, b.x), FSub(a.y, b.y), FSub(a.z, b.z))

\* Vec3::operator+(const Vec3&), and operator+=.
VecAdd(a, b) == Vec3(FAdd(a.x, b.x), FAdd(a.y, b.y), FAdd(a.z, b.z))

\* Vec3::operator*(const Vec3&): the componentwise product.
VecMul(a, b) == Vec3(FMul(a.x, b.x), FMul(a.y, b.y), FMul(a.z, b.z))

\* Vec3::operator*(float).
VecScale(v, scalar) == Vec3(FMul(v.x, scalar), FMul(v.y, scalar), FMul(v.z, scalar))

\* ------------------------------------------------------------------------
\* Mat4
\* ------------------------------------------------------------------------

\* Mat4(): the identity; elems[i] of the program is element i + 1 here.
Mat4Identity ==
    << SCALE, 0, 0, 0,
       0, SCALE, 0, 0,
       0, 0, SCALE, 0,
       0, 0, 0, SCALE >>

\* Mat4(m11 .. m44): arguments in row-major order, stored column-major.
Mat4From(m11, m12, m13, m14, m21, m22, m23, m24, m31, m32, m33, m34, m41, m42, m43, m44) ==
    << m11, m21, m31, m41,
       m12, m22, m32, m42,
       m13, m23, m33, m43,
       m14, m24, m34, m44 >>

MatHasNaN(m) == \E i \in 1..16 : IsNaN(m[i])

\* The right vector that Mat4::look_at normalises: up x camera_dir.
look_at_right(camera_pos, camera_target, up) ==
    cross(up, norm(VecSub(camera_pos, camera_target)))

\* Mat4::look_at.
look_at(camera_pos, camera_target, up) ==
    LET camera_dir   == norm(VecSub(camera_pos, camera_target))
        camera_right == norm(cross(up, camera_dir))
        camera_up_   == cross(camera_dir, camera_right)
        neg_pos      == neg(camera_pos)
        right_perm   == VecMul(neg_pos, camera_right)
        up_perm      == VecMul(neg_pos, camera_up_)
        dir_perm     == VecMul(neg_pos, camera_dir)
    IN  Mat4From(camera_right.x, camera_right.y, camera_right.z, sum(right_perm),
                 camera_up_.x,   camera_up_.y,   camera_up_.z,   sum(up_perm),
                 camera_dir.x,   camera_dir.y,   camera_dir.z,   sum(dir_perm),
                 0,              0,              0,              SCALE)

WIN_WIDTH == 800

WIN_HEIGHT == 600

\* aspect_ratio: (float)WIN_WIDTH / (float)WIN_HEIGHT.
aspect_ratio == FDiv(WIN_WIDTH, WIN_HEIGHT)

\* Mat4::projection, for fov_x in tenths of a degree.
projection(fov_x, z_near, z_far) ==
    LET fov_x_rad == deg_to_rad(fov_x)
        angle     == RoundDiv(fov_x_rad, 2)
        tangent   == tanf(angle)
        right     == FMul(z_near, tangent)
        top       == FDiv(right, aspect_ratio)
    IN  [Mat4Identity EXCEPT
            ![1]  = FDiv(z_near, right),
            ![6]  = FDiv(z_near, top),
            ![11] = FDiv(FAdd(z_far, z_near), FSub(z_near, z_far)),
            ![12] = -SCALE,
            ![15] = FDiv(FMul(FMul(2 * SCALE, z_far), z_near), FSub(z_near, z_far))]

\* Mat4::translate.
translate(m, x, y, z) ==
    [m EXCEPT ![13] = FAdd(m[13], x), ![14] = FAdd(m[14], y), ![15] = FAdd(m[15], z)]

\* ------------------------------------------------------------------------
\* Program state
\* ------------------------------------------------------------------------

VARIABLES
    pc,                 \* the statement of main() that runs next
    clock,              \* the wall clock read by glfwGetTime, in ticks
    keys,               \* the keys GLFW reports as pressed
    cursor,             \* the cursor position of the last motion event
    viewport,           \* the rectangle last passed to glViewport
    should_close,       \* the window's close-requested flag
    events,             \* how many events glfwPollEvents has delivered
    camera_pos,
    camera_front,
    camera_up,
    camera_yaw,
    camera_pitch,
    delta_time,
    last_x,
    last_y,
    last_frame_time,
    projection_mat,     \* the local projection_mat of main()
    dev_projection,     \* uniform "projection" of the device
    projection_submits, \* how many times uniform "projection" was written
    dev_time,           \* uniform "time"
    dev_model,          \* uniform "model"
    dev_view,           \* uniform "view"
    trace,              \* the steps of the current loop iteration, in order
    w_origin,           \* camera_pos where the current forward-only run began
    w_span,             \* the sum of delta_time over the frames of that run
    w_frames,           \* the number of frames of that run
    op,                 \* vector algebra: the operation applied
    va,                 \* vector algebra: first operand
    vb,                 \* vector algebra: second operand
    vres                \* vector algebra: the result

camVars == << camera_pos, camera_front, camera_up, camera_yaw, camera_pitch,
              delta_time, last_x, last_y, last_frame_time >>

devVars == << projection_mat, dev_projection, projection_submits,
              dev_time, dev_model, dev_view >>

envVars == << clock, keys, cursor, viewport, should_close, events >>

histVars == << w_origin, w_span, w_frames >>

mathVars == << op, va, vb, vres >>

progVars == << pc, envVars, camVars, devVars, trace, histVars >>

vars == << progVars, mathVars >>

\* ------------------------------------------------------------------------
\* Inputs
\* ------------------------------------------------------------------------

GLFW_KEY_ESCAPE == "ESCAPE"

GLFW_KEY_W == "W"

GLFW_KEY_S == "S"

GLFW_KEY_A == "A"

GLFW_KEY_D == "D"

Keys == {GLFW_KEY_ESCAPE, GLFW_KEY_W, GLFW_KEY_S, GLFW_KEY_A, GLFW_KEY_D}

MoveKeys == {GLFW_KEY_W, GLFW_KEY_S, GLFW_KEY_A, GLFW_KEY_D}

\* Cursor samples, in pixels; the cursor may be outside the window.
CursorXs == {400, 3250}

CursorYs == {-600, 0, 1200}

CursorSamples == { << x, y >> : x \in CursorXs, y \in CursorYs }

\* Framebuffer sizes a resize can report.
FramebufferSizes == { <<800, 600>>, <<1024, 768>> }

\* ------------------------------------------------------------------------
\* Camera
\* ------------------------------------------------------------------------

CAMERA_PITCH_MAX == 890

CAMERA_PITCH_MIN == -890

\* Degrees of rotation per pixel of cursor motion (0.1), in tenths of a degree.
camera_sensitivity == 1

\* The clamp with its upper limit mistaken for the pole itself.
ClampPitch_Pole(p) ==
    IF p > 900 THEN 900
    ELSE IF p < CAMERA_PITCH_MIN THEN CAMERA_PITCH_MIN
    ELSE p

\* The clamp left out.
ClampPitch_None(p) == p

\* The if / else if of mouse_callback that limits camera_pitch.
ClampPitch(p) ==
    IF p > CAMERA_PITCH_MAX THEN CAMERA_PITCH_MAX
    ELSE IF p < CAMERA_PITCH_MIN THEN CAMERA_PITCH_MIN
    ELSE p

\* A yaw kept within (-180, 180] degrees.
AccumulateYaw_Wrapped(yaw, x_off) == ((yaw + x_off + 1799) % 3600) - 1799

\* camera_yaw += x_off.
AccumulateYaw(yaw, x_off) == yaw + x_off

\* The direction vector mouse_callback derives from pitch and yaw, normalised.
FrontOf(yaw, pitch) ==
    LET camera_pitch_rad == deg_to_rad(pitch)
        camera_yaw_rad   == deg_to_rad(yaw)
        camera_pitch_cos == cosf(camera_pitch_rad)
        camera_pitch_sin == sinf(camera_pitch_rad)
        camera_yaw_cos   == cosf(camera_yaw_rad)
        camera_yaw_sin   == sinf(camera_yaw_rad)
        camera_direction == Vec3(FMul(camera_yaw_cos, camera_pitch_cos),
                                 camera_pitch_sin,
                                 FMul(camera_yaw_sin, camera_pitch_cos))
    IN  norm(camera_direction)

\* The globals of main.cc and the state main() shares with its callbacks,
\* as one record: what a callback can read and write while it runs.
Globals ==
    [ camera_pos |-> camera_pos, camera_front |-> camera_front,
      camera_up |-> camera_up, camera_yaw |-> camera_yaw,
      camera_pitch |-> camera_pitch, delta_time |-> delta_time,
      last_x |-> last_x, last_y |-> last_y,
      viewport |-> viewport, projection_mat |-> projection_mat,
      dev_projection |-> dev_projection,
      projection_submits |-> projection_submits ]

\* mouse_callback(window, x, y), from the globals g to the globals it leaves.
mouse_callback(g, x, y) ==
    LET x_off == (x - g.last_x) * camera_sensitivity
        y_off == (g.last_y - y) * camera_sensitivity
        yaw   == AccumulateYaw(g.camera_yaw, x_off)
        pitch == ClampPitch(g.camera_pitch + y_off)
    IN  [g EXCEPT !.last_x = x,
                  !.last_y = y,
                  !.camera_yaw = yaw,
                  !.camera_pitch = pitch,
                  !.camera_front = FrontOf(yaw, pitch)]

\* A camera_speed that forgets the frame time.
camera_speed_PerFrame(dt) == FMul(5 * SCALE, TimeTick)

\* const float camera_speed = 5.f * delta_time.
camera_speed(dt) == FMul(5 * SCALE, dt)

\* The strafe direction of process_input: norm(camera_front x camera_up).
StrafeRight(front, up) == norm(cross(front, up))

\* The moves with the combined direction normalised before it is scaled.
MovedPos_Normalised(pos, front, up, speed, ks) ==
    LET zero == Vec3(0, 0, 0)
        d1 == IF GLFW_KEY_W \in ks THEN VecAdd(zero, front) ELSE zero
        d2 == IF GLFW_KEY_S \in ks THEN VecSub(d1, front) ELSE d1
        d3 == IF GLFW_KEY_A \in ks THEN VecSub(d2, StrafeRight(front, up)) ELSE d2
        d4 == IF GLFW_KEY_D \in ks THEN VecAdd(d3, StrafeRight(front, up)) ELSE d3
    IN  IF d4 = zero THEN pos ELSE VecAdd(pos, VecScale(norm(d4), speed))

\* The four key tests of process_input, applied to camera_pos in order.
MovedPos(pos, front, up, speed, ks) ==
    LET p1 == IF GLFW_KEY_W \in ks THEN VecAdd(pos, VecScale(front, speed)) ELSE pos
        p2 == IF GLFW_KEY_S \in ks THEN VecSub(p1, VecScale(front, speed)) ELSE p1
        p3 == IF GLFW_KEY_A \in ks
              THEN VecSub(p2, VecScale(StrafeRight(front, up), speed)) ELSE p2
        p4 == IF GLFW_KEY_D \in ks
              THEN VecAdd(p3, VecScale(StrafeRight(front, up), speed)) ELSE p3
    IN  p4

\* The Escape test left out.
CloseOnEscape_Ignored(flag, ks) == flag

\* if (glfwGetKey(window, GLFW_KEY_ESCAPE)) glfwSetWindowShouldClose(window, true).
CloseOnEscape(flag, ks) == flag \/ GLFW_KEY_ESCAPE \in ks

\* process_input(window).
process_input ==
    /\ should_close' = CloseOnEscape(should_close, keys)
    /\ camera_pos' = MovedPos(camera_pos, camera_front, camera_up,
                              camera_speed(delta_time), keys)
    /\ UNCHANGED << camera_front, camera_up, camera_yaw, camera_pitch,
                    delta_time, last_x, last_y, last_frame_time >>

\* window_size_callback that also rebuilds the projection for the new size.
window_size_callback_Rebuild(g, width, height) ==
    LET rebuilt == [g.projection_mat EXCEPT
                       ![6] = FMul(g.projection_mat[1], FDiv(width, height))]
    IN  [g EXCEPT !.viewport = << 0, 0, width, height >>,
                  !.projection_mat = rebuilt,
                  !.dev_projection = rebuilt,
                  !.projection_submits = g.projection_submits + 1]

\* window_size_callback(win, width, height), from the globals g to the
\* globals it leaves.
window_size_callback(g, width, height) ==
    [g EXCEPT !.viewport = << 0, 0, width, height >>]

\* ------------------------------------------------------------------------
\* Initial state: the globals as initialised, main() about to build the
\* projection matrix (everything before is window and shader setup)
\* ------------------------------------------------------------------------

ZeroVec == Vec3(0, 0, 0)

\* The steps of one iteration of the render loop, in the order of the body.
LoopBody == << "time", "input", "model", "view", "draw", "swap", "poll" >>

InitProg ==
    /\ pc = "build_projection"
    /\ clock = 0
    /\ keys = {}
    /\ cursor = << WIN_WIDTH \div 2, WIN_HEIGHT \div 2 >>
    /\ viewport = << 0, 0, WIN_WIDTH, WIN_HEIGHT >>
    /\ should_close = FALSE
    /\ events = 0
    /\ camera_pos = Vec3(0, 0, 3 * SCALE)
    /\ camera_front = Vec3(0, 0, -SCALE)
    /\ camera_up = Vec3(0, SCALE, 0)
    /\ camera_yaw = -900
    /\ camera_pitch = 0
    /\ delta_time = 0
    /\ last_x = WIN_WIDTH \div 2
    /\ last_y = WIN_HEIGHT \div 2
    /\ last_frame_time = 0
    /\ projection_mat = << >>
    /\ dev_projection = << >>
    /\ projection_submits = 0
    /\ dev_time = 0
    /\ dev_model = << >>
    /\ dev_view = << >>
    /\ trace = << >>
    /\ w_origin = Vec3(0, 0, 3 * SCALE)
    /\ w_span = 0
    /\ w_frames = 0

InitMath ==
    /\ op = "none"
    /\ va = ZeroVec
    /\ vb = ZeroVec
    /\ vres = ZeroVec

Init == InitProg /\ InitMath

\* ------------------------------------------------------------------------
\* main(): startup and the render loop
\* ------------------------------------------------------------------------

\* Mat4 projection_mat = Mat4::projection(fov_x, z_near, z_far).
BuildProjection ==
    /\ pc = "build_projection"
    /\ projection_mat' = projection(450, 2 * SCALE, 10 * SCALE)
    /\ pc' = "submit_projection"
    /\ UNCHANGED << envVars, camVars, dev_projection, projection_submits,
                    dev_time, dev_model, dev_view, trace, histVars, mathVars >>

\* glUniformMatrix4fv(projection_loc, ...) before the loop.
SubmitProjection ==
    /\ pc = "submit_projection"
    /\ dev_projection' = projection_mat
    /\ projection_submits' = projection_submits + 1
    /\ pc' = "loop_test"
    /\ UNCHANGED << envVars, camVars, projection_mat,
                    dev_time, dev_model, dev_view, trace, histVars, mathVars >>

\* while (!glfwWindowShouldClose(window)).
LoopTest ==
    /\ pc = "loop_test"
    /\ IF should_close
       THEN pc' = "terminate" /\ trace' = trace
       ELSE pc' = "time" /\ trace' = << >>
    /\ UNCHANGED << envVars, camVars, devVars, histVars, mathVars >>

\* time = glfwGetTime(); delta_time = time - last_frame_time;
\* last_frame_time = time.
UpdateTime ==
    /\ pc = "time"
    /\ \E d \in 1..MaxDt :
        /\ clock + d <= MaxTime
        /\ clock' = clock + d
        /\ delta_time' = FSub(clock' * TimeTick, last_frame_time)
        /\ last_frame_time' = clock' * TimeTick
    /\ pc' = "input"
    /\ trace' = Append(trace, "time")
    /\ UNCHANGED << keys, cursor, viewport, should_close, events, camera_pos,
                    camera_front, camera_up, camera_yaw, camera_pitch,
                    last_x, last_y, devVars, histVars, mathVars >>

\* process_input(window).
ProcessInput ==
    /\ pc = "input"
    /\ process_input
    /\ IF keys \cap MoveKeys = {GLFW_KEY_W}
       THEN /\ w_span' = w_span + delta_time
            /\ w_frames' = w_frames + 1
            /\ w_origin' = w_origin
       ELSE /\ w_span' = 0
            /\ w_frames' = 0
            /\ w_origin' = camera_pos'
    /\ pc' = "model"
    /\ trace' = Append(trace, "input")
    /\ UNCHANGED << clock, keys, cursor, viewport, events, devVars, mathVars >>

\* glUniform1f(time_loc, time); model_mat.translate(0, 0, -5);
\* glUniformMatrix4fv(model_loc, ...).
SubmitModel ==
    /\ pc = "model"
    /\ dev_time' = last_frame_time
    /\ dev_model' = translate(Mat4Identity, 0, 0, -5 * SCALE)
    /\ pc' = "view"
    /\ trace' = Append(trace, "model")
    /\ UNCHANGED << envVars, camVars, projection_mat, dev_projection,
                    projection_submits, dev_view, histVars, mathVars >>

\* view_mat = Mat4::look_at(camera_pos, camera_pos + camera_front, camera_up);
\* glUniformMatrix4fv(view_loc, ...).
SubmitView ==
    /\ pc = "view"
    /\ dev_view' = look_at(camera_pos, VecAdd(camera_pos, camera_front), camera_up)
    /\ pc' = "draw"
    /\ trace' = Append(trace, "view")
    /\ UNCHANGED << envVars, camVars, projection_mat, dev_projection,
                    projection_submits, dev_time, dev_model, histVars, mathVars >>

\* A loop body that polls the events right after the draw call and swaps
\* after them.
Draw_ThenPoll ==
    /\ pc = "draw"
    /\ pc' = "poll"
    /\ trace' = Append(trace, "draw")
    /\ UNCHANGED << envVars, camVars, devVars, histVars, mathVars >>

\* glDrawArrays(GL_TRIANGLES, 0, 36).
Draw ==
    /\ pc = "draw"
    /\ pc' = "swap"
    /\ trace' = Append(trace, "draw")
    /\ UNCHANGED << envVars, camVars, devVars, histVars, mathVars >>

\* glfwSwapBuffers(window).
SwapBuffers ==
    /\ pc = "swap"
    /\ pc' = "poll"
    /\ trace' = Append(trace, "swap")
    /\ UNCHANGED << envVars, camVars, devVars, histVars, mathVars >>

\* One pending cursor motion delivered inside glfwPollEvents(): GLFW records
\* the position and runs mouse_callback(window, x, y).
DeliverCursorPos(d, x, y) ==
    [ g |-> mouse_callback(d.g, x, y), cursor |-> << x, y >>, n |-> d.n + 1 ]

\* The outcomes of delivering at most k pending cursor motions, one after
\* the other, starting from any of the deliveries D.
RECURSIVE DeliverCursorEvents(_, _)
DeliverCursorEvents(D, k) ==
    IF k = 0
    THEN D
    ELSE DeliverCursorEvents(
             D \cup UNION { { DeliverCursorPos(d, c[1], c[2]) :
                                  c \in { e \in CursorSamples : e # d.cursor } } :
                              d \in D },
             k - 1)

\* The keys whose state differs between two key states: one key event each.
KeyEvents(ks1, ks2) == (ks1 \ ks2) \cup (ks2 \ ks1)

\* glfwPollEvents(): every pending event is processed before the call
\* returns.  The pending cursor motions run mouse_callback in order; key
\* presses and releases leave the key state ks that glfwGetKey reports; a
\* resize runs window_size_callback; a close request of the window system
\* sets the close-requested flag.  The callbacks of different event kinds
\* write different state, so their relative order does not matter.  The
\* events of the whole run number at most MaxEvents.
PollEvents ==
    /\ pc = "poll"
    /\ \E d \in DeliverCursorEvents(
                   {[ g |-> Globals, cursor |-> cursor, n |-> 0 ]},
                   MaxEvents - events),
          ks \in SUBSET Keys, sz \in FramebufferSizes, close \in BOOLEAN :
        LET resized == << 0, 0, sz[1], sz[2] >> # viewport
            g == IF resized
                 THEN window_size_callback(d.g, sz[1], sz[2])
                 ELSE d.g
            delivered == d.n + Cardinality(KeyEvents(keys, ks))
                             + (IF resized THEN 1 ELSE 0)
                             + (IF close THEN 1 ELSE 0)
        IN  /\ events + delivered <= MaxEvents
            /\ events' = events + delivered
            /\ cursor' = d.cursor
            /\ keys' = ks
            /\ should_close' = (should_close \/ close)
            /\ camera_pos' = g.camera_pos
            /\ camera_front' = g.camera_front
            /\ camera_up' = g.camera_up
            /\ camera_yaw' = g.camera_yaw
            /\ camera_pitch' = g.camera_pitch
            /\ delta_time' = g.delta_time
            /\ last_x' = g.last_x
            /\ last_y' = g.last_y
            /\ viewport' = g.viewport
            /\ projection_mat' = g.projection_mat
            /\ dev_projection' = g.dev_projection
            /\ projection_submits' = g.projection_submits
            /\ IF d.n > 0
               THEN /\ w_origin' = g.camera_pos
                    /\ w_span' = 0
                    /\ w_frames' = 0
               ELSE UNCHANGED histVars
    /\ pc' = "loop_test"
    /\ trace' = Append(trace, "poll")
    /\ UNCHANGED << clock, last_frame_time, dev_time, dev_model, dev_view,
                    mathVars >>

\* glfwTerminate(); return 0.
Terminate ==
    /\ pc = "terminate"
    /\ pc' = "exited"
    /\ UNCHANGED << envVars, camVars, devVars, trace, histVars, mathVars >>

Next ==
    \/ BuildProjection
    \/ SubmitProjection
    \/ LoopTest
    \/ UpdateTime
    \/ ProcessInput
    \/ SubmitModel
    \/ SubmitView
    \/ Draw
    \/ SwapBuffers
    \/ PollEvents
    \/ Terminate

Spec == Init /\ [][Next]_vars

PcValues ==
    { "build_projection", "submit_projection", "loop_test", "time", "input",
      "model", "view", "draw", "swap", "poll", "terminate", "exited" }

\* A step of Next seen through pc alone: every step of Next changes pc, and
\* a step of Next is possible exactly when the program has not exited and
\* the model clock can still advance.
Progress ==
    /\ pc # "exited"
    /\ pc = "time" => clock < MaxTime
    /\ pc' \in PcValues
    /\ pc' # pc

\* The render loop never stalls: every statement of main() that can run
\* does run, and glfwSwapBuffers and glfwPollEvents return.
FairSpec == Spec /\ WF_pc(Progress)

\* ------------------------------------------------------------------------
\* Vector algebra on its own: the operations applied to operands drawn
\* from a grid that contains the zero vector and parallel pairs
\* ------------------------------------------------------------------------

Coords == { k * CoordStep : k \in -MaxCoord..MaxCoord }

Operands == { Vec3(x, y, z) : x \in Coords, y \in Coords, z \in Coords }

MathInit ==
    /\ InitProg
    /\ op = "none"
    /\ va \in Operands
    /\ vb \in Operands
    /\ vres = ZeroVec

\* va.cross(vb).
ApplyCross ==
    /\ op = "none"
    /\ op' = "cross"
    /\ vres' = cross(va, vb)
    /\ UNCHANGED << progVars, va, vb >>

\* va.norm().
ApplyNorm ==
    /\ op = "none"
    /\ op' = "norm"
    /\ vres' = norm(va)
    /\ UNCHANGED << progVars, va, vb >>

\* Mat4::look_at(va, vb, camera_up).
ApplyLookAt ==
    /\ op = "none"
    /\ op' = "look_at"
    /\ vres' = look_at(va, vb, camera_up)
    /\ UNCHANGED << progVars, va, vb >>

MathNext == ApplyCross \/ ApplyNorm \/ ApplyLookAt

MathSpec == MathInit /\ [][MathNext]_vars

\* ------------------------------------------------------------------------
\* Properties
\* ------------------------------------------------------------------------

InStartup == pc \in {"build_projection", "submit_projection"}

InitialPos == Vec3(0, 0, 3 * SCALE)

\* The steps of the loop body that precede the step named by pc.
StepsBefore(step) ==
    LET i == CHOOSE j \in 1..Len(LoopBody) : LoopBody[j] = step
    IN  SubSeq(LoopBody, 1, i - 1)

\* C1: after any sequence of look updates camera_pitch lies in [-89, 89]
\* degrees, and from every reachable state a look update whose upward
\* offset would carry the pitch to 89 degrees or past it leaves the pitch at
\* exactly 89 degrees (and likewise at -89 degrees downward).
C1_PitchClamp ==
    /\ camera_pitch >= -890
    /\ camera_pitch <= 890
    /\ \A c \in CursorSamples :
        LET y_off == last_y - c[2]
            after == mouse_callback(Globals, c[1], c[2])
        IN  /\ (y_off > 0 /\ camera_pitch + y_off >= 890)
                   => after.camera_pitch = 890
            /\ (y_off < 0 /\ camera_pitch + y_off <= -890)
                   => after.camera_pitch = -890

\* C1 witness: an upward offset of 90 degrees from the initial cursor row
\* has been applied and the pitch stands at 89 degrees.
C1_Witness == camera_pitch = 890 /\ last_y = -600 /\ cursor[2] = -600

\* C2: in every reachable state camera_front is not parallel to camera_up:
\* the cross product of the strafe computation and the cross product of
\* look_at are nonzero, and no normalisation has divided by zero, so that
\* the camera state and the submitted view matrix hold no NaN.
C2_FrontNeverParallelToUp ==
    /\ cross(camera_front, camera_up) # ZeroVec
    /\ look_at_right(camera_pos, VecAdd(camera_pos, camera_front), camera_up) # ZeroVec
    /\ ~VecHasNaN(camera_front)
    /\ ~VecHasNaN(camera_pos)
    /\ ~MatHasNaN(look_at(camera_pos, VecAdd(camera_pos, camera_front), camera_up))
    /\ (dev_view # << >> => ~MatHasNaN(dev_view))

\* C2 witness: the pitch is at its upper limit, a strafe has moved the
\* camera there and the view matrix of that frame has been submitted.
C2_Witness ==
    /\ pc = "draw"
    /\ camera_pitch = 890
    /\ GLFW_KEY_D \in keys
    /\ camera_pos.x # 0

\* C3: the close-requested flag alone ends the render loop and is tested
\* once per iteration, at the loop head: process_input sets it when it sees
\* Escape, it stays set (whether Escape or a close request of the window
\* system set it), the iteration that set it runs to its end, no further
\* iteration starts, the program then terminates; while the flag is not
\* set the loop does not exit.
C3_CloseFlagEndsLoop ==
    /\ [][should_close => should_close']_vars
    /\ [][(pc = "input" /\ GLFW_KEY_ESCAPE \in keys) => should_close']_vars
    /\ [][(pc # "terminate" /\ pc' = "terminate")
            => (pc = "loop_test" /\ should_close)]_vars
    /\ [][(pc = "loop_test" /\ should_close) => pc' = "terminate"]_vars
    /\ [][(pc = "loop_test" /\ ~should_close) => pc' = "time"]_vars
    /\ [](pc \in {"terminate", "exited"} => (should_close /\ trace = LoopBody))
    /\ (should_close ~> (pc = "exited"))

\* C3 witness: the program has terminated after Escape, the last iteration
\* having run all its steps.
C3_Witness ==
    /\ pc = "exited"
    /\ should_close
    /\ GLFW_KEY_ESCAPE \in keys
    /\ trace = LoopBody

\* C4 as stated: within an iteration the events are polled first, so that
\* when the timing and camera are updated and the matrices are built, the
\* iteration has already polled its events.
C4_PollFirst ==
    pc \in {"input", "model", "view", "draw", "swap"}
        => \E i \in 1..Len(trace) : trace[i] = "poll"

\* C4 amended: every iteration runs its steps in the order timing update,
\* move update from the key state, model and view matrices built and
\* submitted, draw, present, event polling; no step of another iteration
\* comes between; the look updates that event polling delivers are applied
\* after the iteration's view matrix was built and presented, and the next
\* iteration's view matrix is built from them.
C4_LoopOrder ==
    /\ [](pc \in {"time", "input", "model", "view", "draw", "swap", "poll"}
            => trace = StepsBefore(pc))
    /\ [](pc \in {"loop_test", "terminate", "exited"}
            => (trace = << >> \/ trace = LoopBody))
    /\ [][(camera_front' # camera_front \/ camera_yaw' # camera_yaw
             \/ camera_pitch' # camera_pitch)
            => (pc = "poll" /\ trace = StepsBefore("poll"))]_vars
    /\ [](pc \in {"draw", "swap", "poll"}
            => dev_view = look_at(camera_pos, VecAdd(camera_pos, camera_front),
                                  camera_up))

\* C4 witness: an iteration has ended whose event polling delivered a look
\* update: the view matrix it presented predates that update.
C4_Witness ==
    /\ pc = "loop_test"
    /\ trace = LoopBody
    /\ camera_pitch = 890
    /\ dev_view # look_at(camera_pos, VecAdd(camera_pos, camera_front), camera_up)

\* C5: over a run of frames with camera_front fixed and W the only movement
\* key, camera_pos is displaced by 5 * (sum of the frames' delta_time) *
\* camera_front, whatever the number of frames the time was split into;
\* equality is up to the rounding of one multiplication per frame.
C5_FrameRateIndependence ==
    w_frames > 0 =>
        LET expected == VecAdd(w_origin,
                               VecScale(camera_front, FMul(5 * SCALE, w_span)))
        IN  /\ 2 * Abs(camera_pos.x - expected.x) <= w_frames + 1
            /\ 2 * Abs(camera_pos.y - expected.y) <= w_frames + 1
            /\ 2 * Abs(camera_pos.z - expected.z) <= w_frames + 1

\* C5 witness: two or more consecutive forward-only frames, not all of the
\* same length, have moved the camera.
C5_Witness ==
    /\ w_frames >= 2
    /\ w_span >= 3 * TimeTick
    /\ camera_pos # w_origin

\* C6 as stated: with W and a strafe key active, the displacement is longer
\* than a forward-only displacement by more than the step length.
C6_ExceedsBySpeed ==
    [][(pc = "input" /\ GLFW_KEY_W \in keys
          /\ (GLFW_KEY_A \in keys \/ GLFW_KEY_D \in keys))
        => length(VecSub(camera_pos', camera_pos))
             - length(VecScale(camera_front, camera_speed(delta_time)))
           > camera_speed(delta_time)]_vars

\* C6 amended: with W and exactly one of A and D active, S not, and a
\* positive delta_time, the displacement is longer than a forward-only
\* displacement by a factor between 1.4 and 1.5 (the square root of 2), so
\* by less than the step length.
C6_DiagonalFaster ==
    [][(pc = "input" /\ delta_time > 0
          /\ keys \cap MoveKeys \in {{GLFW_KEY_W, GLFW_KEY_A}, {GLFW_KEY_W, GLFW_KEY_D}})
        => LET diagonal == length(VecSub(camera_pos', camera_pos))
               single   == length(VecScale(camera_front, camera_speed(delta_time)))
           IN  /\ 10 * diagonal > 14 * single
               /\ 10 * diagonal < 15 * single
               /\ diagonal - single < camera_speed(delta_time)]_vars

\* C6 witness: process_input has just run with W and D down.
C6_Witness ==
    /\ pc = "model"
    /\ keys = {GLFW_KEY_W, GLFW_KEY_D}
    /\ delta_time > 0
    /\ camera_pos # InitialPos

\* C7: the projection matrix is built once at startup from fov 45, near 2,
\* far 10 and the aspect ratio 800/600, is submitted once before the loop,
\* and no later step, look update, move update or resize changes it or
\* submits it again.
C7_ProjectionOnce ==
    /\ [](~InStartup =>
            /\ Len(projection_mat) = 16
            /\ Abs(projection_mat[1] - 24142) <= 2
            /\ Abs(projection_mat[6] - 32190) <= 2
            /\ projection_mat[11] = -15000
            /\ projection_mat[12] = -SCALE
            /\ projection_mat[15] = -50000
            /\ dev_projection = projection_mat
            /\ projection_submits = 1)
    /\ [][~InStartup
            => UNCHANGED << projection_mat, dev_projection, projection_submits >>]_vars

\* C7 witness: a resize has been delivered and a later frame drawn.
C7_Witness ==
    /\ pc = "swap"
    /\ viewport = << 0, 0, 1024, 768 >>
    /\ projection_submits = 1
    /\ camera_pos # InitialPos

\* C8: norm and look_at never hand back NaN components: a zero-length
\* vector is replaced by a fallback or the program stops (the program has
\* no statement that stops it here, so the result must be free of NaN).
C8_NoSilentNaN ==
    /\ (op = "norm" => ~VecHasNaN(vres))
    /\ (op = "look_at" => ~MatHasNaN(vres))

\* The cross product by the right-hand rule, from the operands as given.
RightHandRule(a, b) ==
    Vec3(FSub(FMul(a.y, b.z), FMul(a.z, b.y)),
         FSub(FMul(a.z, b.x), FMul(a.x, b.z)),
         FSub(FMul(a.x, b.y), FMul(a.y, b.x)))

\* C9: a.cross(b) leaves in a the right-hand-rule product of the original
\* operands, and it is the componentwise negation of b.cross(a).
C9_CrossAntiCommutative ==
    op = "cross" =>
        /\ vres = RightHandRule(va, vb)
        /\ vres = neg(cross(vb, va))

\* C9 witness: a cross product with three nonzero components, of operands
\* whose components all differ.
C9_Witness ==
    /\ op = "cross"
    /\ vres.x # 0 /\ vres.y # 0 /\ vres.z # 0
    /\ va.x # va.y /\ va.y # va.z /\ va.x # va.z

\* C10: event polling, with the look updates it delivers, leaves
\* camera_pos, camera_up and delta_time alone, as does a single look update
\* applied in any reachable state; a move update leaves camera_yaw,
\* camera_pitch, camera_front, camera_up, last_x and last_y alone; last_x
\* and last_y are the latest cursor sample and camera_yaw is
\* -90 + 0.1 * (last_x - 400) degrees, neither clamped nor wrapped.
C10_DisjointCameraState ==
    /\ [][pc = "poll" => UNCHANGED << camera_pos, camera_up, delta_time >>]_vars
    /\ [](\A c \in CursorSamples :
            LET after == mouse_callback(Globals, c[1], c[2])
            IN  /\ after.camera_pos = camera_pos
                /\ after.camera_up = camera_up
                /\ after.delta_time = delta_time
                /\ after.last_x = c[1]
                /\ after.last_y = c[2])
    /\ [][pc = "input"
            => UNCHANGED << camera_yaw, camera_pitch, camera_front, camera_up,
                            last_x, last_y >>]_vars
    /\ [](last_x = cursor[1] /\ last_y = cursor[2])
    /\ [](camera_yaw = -900 + (last_x - 400))

\* C10 witness: look updates have carried the yaw past 180 degrees and a
\* move update has run since.
C10_Witness ==
    /\ camera_yaw = 1950
    /\ last_x = 3250
    /\ camera_pos # InitialPos

====
